---- MODULE Spec2Model ----
(***************************************************************************)
(* State-machine model of the dictyBase go-middlewares packages:           *)
(*   query   - query.MiddlewareFn, validateHeader, queryParamError         *)
(*   cache   - NewHTTPCache(day, t) and HTTPCache.Handler                  *)
(*   nocache - nocache.Middleware                                          *)
(* Go strings that the code takes apart or builds are sequences of         *)
(* one-character strings, so that prefix tests, the key regexp,            *)
(* strings.Split, strconv.Quote and the number and date formats are        *)
(* computed; fixed texts appear as one element.  Go maps are functions     *)
(* with a finite domain.                                                   *)
(***************************************************************************)
EXTENDS Integers, Sequences, FiniteSets, TLC

VARIABLES
    values,      \* r.URL.Query(): query key -> non-empty list of values
    reqHeader,   \* r.Header of the request(s): canonical name -> value ("" when absent)
    pc,          \* per query request: "idle" before MiddlewareFn's closure runs, "done" after
    params,      \* per query request: the Params the closure built
    visited,     \* per query request: the keys the range loop yielded, in order
    w,           \* per query request: the http.ResponseWriter
    passed,      \* per query request: the contexts the downstream handler fn was called with
    encFailed,   \* per query request: whether json Encode returned an error
    cacheIn,     \* arguments of NewHTTPCache: [day, t]
    cache,       \* the *HTTPCache built by NewHTTPCache (Nil before construction)
    hw,          \* ResponseWriter header map seen by the cache / nocache middleware
    prior,       \* the header map as it was before the cache / nocache closure ran
    hpc,         \* "idle" before the cache / nocache closure serves the request, "done" after
    nextSeen     \* the header maps next.ServeHTTP was called with by the cache / nocache middleware

vars == <<values, reqHeader, pc, params, visited, w, passed, encFailed,
         cacheIn, cache, hw, prior, hpc, nextSeen>>

queryVars == <<pc, params, visited, w, passed, encFailed>>
headerVars == <<cacheIn, cache, hw, prior, hpc, nextSeen>>

(***************************************************************************)
(* Bounds of the model.                                                    *)
(***************************************************************************)
\* largest number of distinct keys in a query string
MaxKeys == 2
\* largest `day` argument given to NewHTTPCache
MaxDay == 3

(***************************************************************************)
(* Strings.                                                                *)
(***************************************************************************)
EmptyString == <<>>

DQ == "\""
BS == "\\"

Digits == <<"0","1","2","3","4","5","6","7","8","9">>

\* the regexp class \w : [0-9A-Za-z_]
WordChars ==
    {"0","1","2","3","4","5","6","7","8","9","_"} \cup
    {"a","b","c","d","e","f","g","h","i","j","k","l","m",
     "n","o","p","q","r","s","t","u","v","w","x","y","z"} \cup
    {"A","B","C","D","E","F","G","H","I","J","K","L","M",
     "N","O","P","Q","R","S","T","U","V","W","X","Y","Z"}

\* strings.HasPrefix
HasPrefix(s, prefix) ==
    /\ Len(s) >= Len(prefix)
    /\ SubSeq(s, 1, Len(prefix)) = prefix

\* strings.Contains(s, ",") for a one-character separator
Contains(s, sep) == \E i \in 1..Len(s) : s[i] = sep

\* strings.Split(s, sep) for a one-character separator
RECURSIVE SplitFrom(_, _, _, _)
SplitFrom(s, sep, i, cur) ==
    IF i > Len(s) THEN <<cur>>
    ELSE IF s[i] = sep THEN <<cur>> \o SplitFrom(s, sep, i + 1, <<>>)
    ELSE SplitFrom(s, sep, i + 1, Append(cur, s[i]))

Split(s, sep) == SplitFrom(s, sep, 1, <<>>)

\* strconv.Quote on printable ASCII: the double quote and the backslash are
\* escaped with a backslash, the result is wrapped in double quotes
RECURSIVE QuoteEscape(_)
QuoteEscape(s) ==
    IF s = <<>> THEN <<>>
    ELSE (IF Head(s) \in {DQ, BS} THEN <<BS, Head(s)>> ELSE <<Head(s)>>)
         \o QuoteEscape(Tail(s))

Quote(s) == <<DQ>> \o QuoteEscape(s) \o <<DQ>>

\* strconv.Itoa / the %d verb, for n >= 0
RECURSIVE Itoa(_)
Itoa(n) ==
    IF n < 10 THEN <<Digits[n + 1]>>
    ELSE Itoa(n \div 10) \o <<Digits[(n % 10) + 1]>>

(***************************************************************************)
(* Go maps.                                                                *)
(***************************************************************************)
EmptyMap == <<>>

MapSet(m, k, v) == [x \in (DOMAIN m) \cup {k} |-> IF x = k THEN v ELSE m[x]]

(***************************************************************************)
(* Package query: constants.                                               *)
(***************************************************************************)
\* the media type as the specification writes it
PlainMediaType ==
    <<"a","p","p","l","i","c","a","t","i","o","n","/","v","n","d",".",
      "a","p","i","+","j","s","o","n",";"," ",
      "s","u","p","p","o","r","t","e","d","-","e","x","t","=",DQ,
      "d","i","c","t","y","b","a","s","e","/",
      "f","i","l","t","e","r","i","n","g","-","r","e","s","o","u","c","e",DQ>>

ContextKeyQueryParams == "jsparams"
acceptH == "Accept"
contentType == "Content-Type"
filterMediaType == Quote(PlainMediaType)

JSONAPIMediaType ==
    <<"a","p","p","l","i","c","a","t","i","o","n","/","v","n","d",".",
      "a","p","i","+","j","s","o","n">>

PrefixFilter == <<"f","i","l","t","e","r">>
PrefixFields == <<"f","i","e","l","d","s">>
KeyInclude == <<"i","n","c","l","u","d","e">>

StatusBadRequest == 400
StatusNotAcceptable == 406
StatusUnsupportedMediaType == 415
StatusInternalServerError == 500

NoMatch == [matched |-> FALSE, sub |-> <<>>]

\* qregx.FindStringSubmatch(k) for ^\w+\[(\w+)\]$ : sub is the group m[1]
FindStringSubmatch(k) ==
    LET opens == {i \in 1..Len(k) : k[i] = "["}
    IN  IF opens = {} THEN NoMatch
        ELSE LET i == CHOOSE j \in opens : \A o \in opens : j <= o
                 n == Len(k)
             IN  IF /\ i > 1
                    /\ \A j \in 1..(i - 1) : k[j] \in WordChars
                    /\ n > i + 1
                    /\ k[n] = "]"
                    /\ \A j \in (i + 1)..(n - 1) : k[j] \in WordChars
                 THEN [matched |-> TRUE, sub |-> SubSeq(k, i + 1, n - 1)]
                 ELSE NoMatch

(***************************************************************************)
(* net/http ResponseWriter, as MiddlewareFn's callees use it.  The status  *)
(* and the headers go out with the first WriteHeader; a later WriteHeader  *)
(* is ignored and later changes of the header map are not sent.            *)
(***************************************************************************)
NewResponseWriter ==
    [header |-> EmptyMap, wroteHeader |-> FALSE, status |-> 0,
     sent |-> EmptyMap, body |-> <<>>]

\* w.Header().Set(k, v)
HeaderSet(wr, k, v) == [wr EXCEPT !.header = MapSet(@, k, v)]

\* w.WriteHeader(code)
WriteHeader(wr, code) ==
    IF wr.wroteHeader THEN wr
    ELSE [wr EXCEPT !.wroteHeader = TRUE, !.status = code, !.sent = wr.header]

\* w.Write(data), after WriteHeader
Write(wr, data) == [wr EXCEPT !.body = Append(@, data)]

TextPlain ==
    <<"t","e","x","t","/","p","l","a","i","n",";"," ",
      "c","h","a","r","s","e","t","=","u","t","f","-","8">>

\* http.Error(w, msg, code)
HttpError(wr, msg, code) ==
    LET w1 == HeaderSet(wr, "Content-Type", TextPlain)
        w2 == HeaderSet(w1, "X-Content-Type-Options", <<"n","o","s","n","i","f","f">>)
        w3 == WriteHeader(w2, code)
    IN  Write(w3, [text |-> msg])

\* fmt.Sprintf(format, arg) with one %s verb
Sprintf(format, arg) == <<format, arg>>

\* err.Error() of the error json Encode returned
EncodeErrorMessage == "json: encode error"

(***************************************************************************)
(* Package query.                                                          *)
(***************************************************************************)
newParams ==
    [Includes |-> <<>>, Fields |-> EmptyMap, Filters |-> EmptyMap,
     HasFields |-> FALSE, HasIncludes |-> FALSE, HasFilters |-> FALSE]

\* queryParamError; encodeFails is the outcome of json.NewEncoder(w).Encode
queryParamError(wr, status, title, detail, encodeFails) ==
    LET w1 == HeaderSet(wr, "Content-Type", JSONAPIMediaType)
        w2 == WriteHeader(w1, status)
        jsnErr == [Status |-> Itoa(status), Title |-> title, Detail |-> detail,
                   Meta |-> [creator |-> "query middleware"]]
    IN  IF encodeFails
        THEN HttpError(w2, EncodeErrorMessage, StatusInternalServerError)
        ELSE Write(w2, [Errors |-> <<jsnErr>>])

\* validateHeader with the two comparisons in the other order
validateHeaderContentTypeFirst(wr, hdr, encodeFails) ==
    IF hdr[acceptH] # hdr[contentType]
    THEN [ok |-> FALSE,
          w |-> queryParamError(wr, StatusUnsupportedMediaType,
                   "Media type is not supported",
                   Sprintf("The given media type %s in Content-Type header is not supported",
                           hdr[contentType]),
                   encodeFails)]
    ELSE IF hdr[acceptH] # filterMediaType
    THEN [ok |-> FALSE,
          w |-> queryParamError(wr, StatusNotAcceptable,
                   "Accept header is not acceptable",
                   Sprintf("The given Accept header value %s is incorrect for filter query extension",
                           hdr[acceptH]),
                   encodeFails)]
    ELSE [ok |-> TRUE, w |-> wr]

\* validateHeader: [ok, w]
validateHeader(wr, hdr, encodeFails) ==
    IF hdr[acceptH] # filterMediaType
    THEN [ok |-> FALSE,
          w |-> queryParamError(wr, StatusNotAcceptable,
                   "Accept header is not acceptable",
                   Sprintf("The given Accept header value %s is incorrect for filter query extension",
                           hdr[acceptH]),
                   encodeFails)]
    ELSE IF hdr[acceptH] # hdr[contentType]
    THEN [ok |-> FALSE,
          w |-> queryParamError(wr, StatusUnsupportedMediaType,
                   "Media type is not supported",
                   Sprintf("The given media type %s in Content-Type header is not supported",
                           hdr[contentType]),
                   encodeFails)]
    ELSE [ok |-> TRUE, w |-> wr]

\* the value list a key carries: strings.Split when it holds a comma
CommaList(v) == IF Contains(v, ",") THEN Split(v, ",") ELSE <<v>>

\* BadKey that drops the key and goes on with the loop
BadKeyContinue(st, format, v, encodeFails) == st

\* the 400 response of a key that does not match qregx, then `return`
BadKey(st, format, v, encodeFails) ==
    [st EXCEPT !.w = queryParamError(st.w, StatusBadRequest,
                        "Invalid query parameter", Sprintf(format, v[1]),
                        encodeFails),
               !.returned = TRUE]

\* case strings.HasPrefix(k, "filter")
FilterCase(st, k, v, hdr, encodeFails) ==
    LET vh == validateHeader(st.w, hdr, encodeFails)
        m == FindStringSubmatch(k)
    IN  IF ~vh.ok
        THEN [st EXCEPT !.w = vh.w, !.returned = TRUE]
        ELSE IF m.matched
        THEN [st EXCEPT !.params.Filters = MapSet(@, m.sub, v[1]),
                        !.params.HasFilters = TRUE]
        ELSE BadKey(st, "Unable to match filter query param %s", v, encodeFails)

\* FieldsCase that asks for the filter headers too
FieldsCaseValidated(st, k, v, hdr, encodeFails) ==
    LET vh == validateHeader(st.w, hdr, encodeFails)
        m == FindStringSubmatch(k)
    IN  IF ~vh.ok
        THEN [st EXCEPT !.w = vh.w, !.returned = TRUE]
        ELSE IF m.matched
        THEN [st EXCEPT !.params.Fields = MapSet(@, m.sub, CommaList(v[1])),
                        !.params.HasFields = TRUE]
        ELSE BadKey(st, "Unable to match fields query param %s", v, encodeFails)

\* case strings.HasPrefix(k, "fields")
FieldsCase(st, k, v, hdr, encodeFails) ==
    LET m == FindStringSubmatch(k)
    IN  IF m.matched
        THEN [st EXCEPT !.params.Fields = MapSet(@, m.sub, CommaList(v[1])),
                        !.params.HasFields = TRUE]
        ELSE BadKey(st, "Unable to match fields query param %s", v, encodeFails)

\* case k == "include"
IncludeCase(st, v) ==
    [st EXCEPT !.params.Includes = CommaList(v[1]),
               !.params.HasIncludes = TRUE]

\* one iteration of `for k, v := range values`;
\* st = [params, w, returned, visited]
LoopBody(st, k, v, hdr, encodeFails) ==
    LET s1 == [st EXCEPT !.visited = Append(@, k)]
    IN  IF HasPrefix(k, PrefixFilter) THEN FilterCase(s1, k, v, hdr, encodeFails)
        ELSE IF HasPrefix(k, PrefixFields) THEN FieldsCase(s1, k, v, hdr, encodeFails)
        ELSE IF k = KeyInclude THEN IncludeCase(s1, v)
        ELSE s1

\* the range loop over the keys in the order the map iteration yields them
RECURSIVE RangeLoop(_, _, _, _, _, _)
RangeLoop(st, vals, order, i, hdr, encodeFails) ==
    IF i > Len(order) \/ st.returned THEN st
    ELSE RangeLoop(LoopBody(st, order[i], vals[order[i]], hdr, encodeFails),
                   vals, order, i + 1, hdr, encodeFails)

\* ContextFor that attaches the Params whatever the flags are
ContextForAlways(p) == MapSet(EmptyMap, ContextKeyQueryParams, p)

\* the context handed to fn: r.Context() with or without the Params value
ContextFor(p) ==
    IF p.HasFilters \/ p.HasFields \/ p.HasIncludes
    THEN MapSet(EmptyMap, ContextKeyQueryParams, p)
    ELSE EmptyMap

\* CallFn when the error branches fall through to the call of fn
CallFnAlways(st) == <<ContextFor(st.params)>>

\* the calls of the downstream handler fn once the loop is over: the
\* contexts fn is called with, none after a `return` inside the loop
CallFn(st) == IF st.returned THEN <<>> ELSE <<ContextFor(st.params)>>

\* the closure MiddlewareFn returns, run on one request:
\* [w, params, visited, passed (contexts fn was called with), encodeFailed]
MiddlewareFn(wr, vals, hdr, order, encodeFails) ==
    LET st == RangeLoop([params |-> newParams, w |-> wr, returned |-> FALSE,
                         visited |-> <<>>],
                        vals, order, 1, hdr, encodeFails)
    IN  [w |-> st.w, params |-> st.params, visited |-> st.visited,
         passed |-> CallFn(st), encodeFailed |-> st.returned /\ encodeFails]

\* the orders in which a range over a map with key set S can yield the keys
Orders(S) ==
    {o \in [1..Cardinality(S) -> S] : \A i, j \in DOMAIN o : o[i] = o[j] => i = j}

(***************************************************************************)
(* Requests.                                                               *)
(***************************************************************************)
\* two independent requests carrying the same query string and headers
Reqs == {1, 2}

\* query keys: include, well-formed and malformed fields and filter keys,
\* two keys of each kind sharing a sub-key, and two keys the switch ignores
Keys ==
    { KeyInclude,
      <<"f","i","e","l","d","s","[","a","r","t","i","c","l","e","s","]">>,
      <<"f","i","e","l","d","s","Y","[","a","r","t","i","c","l","e","s","]">>,
      <<"f","i","e","l","d","s","X">>,
      <<"f","i","l","t","e","r","[","n","a","m","e","]">>,
      <<"f","i","l","t","e","r","Z","[","n","a","m","e","]">>,
      <<"f","i","l","t","e","r","[","]">>,
      <<"i","n","c","l","u","d","e","s">>,
      <<"s","o","r","t">> }

Foo == <<"f","o","o">>
Title == <<"t","i","t","l","e">>
Body == <<"b","o","d","y">>
TitleBody == <<"t","i","t","l","e",",","b","o","d","y">>

\* url.Values holds a non-empty list per key
ValueLists == { <<Foo>>, <<TitleBody, Foo>> }

Queries ==
    UNION { [K -> ValueLists] :
            K \in {S \in SUBSET Keys : Cardinality(S) <= MaxKeys} }

HeaderValues == { EmptyString, PlainMediaType, filterMediaType }

RequestHeaders == [{acceptH, contentType} -> HeaderValues]

Nil == [nil |-> TRUE]

InitRequest ==
    /\ values \in Queries
    /\ reqHeader \in RequestHeaders

InitQueryIdle ==
    /\ pc = [r \in Reqs |-> "idle"]
    /\ params = [r \in Reqs |-> newParams]
    /\ visited = [r \in Reqs |-> <<>>]
    /\ w = [r \in Reqs |-> NewResponseWriter]
    /\ passed = [r \in Reqs |-> <<>>]
    /\ encFailed = [r \in Reqs |-> FALSE]

InitHeadersUnused ==
    /\ cacheIn = Nil
    /\ cache = Nil
    /\ hw = EmptyMap
    /\ prior = hw
    /\ hpc = "idle"
    /\ nextSeen = <<>>

InitQuery == InitRequest /\ InitQueryIdle /\ InitHeadersUnused

\* the server runs the wrapped handler on request r
Serve(r) ==
    /\ pc[r] = "idle"
    /\ \E order \in Orders(DOMAIN values), encodeFails \in BOOLEAN :
         \E res \in {MiddlewareFn(w[r], values, reqHeader, order, encodeFails)} :
             /\ w' = [w EXCEPT ![r] = res.w]
             /\ params' = [params EXCEPT ![r] = res.params]
             /\ visited' = [visited EXCEPT ![r] = res.visited]
             /\ passed' = [passed EXCEPT ![r] = res.passed]
             /\ encFailed' = [encFailed EXCEPT ![r] = res.encodeFailed]
    /\ pc' = [pc EXCEPT ![r] = "done"]
    /\ UNCHANGED <<values, reqHeader>>
    /\ UNCHANGED headerVars

NextQuery == \E r \in Reqs : Serve(r)

SpecQuery == InitQuery /\ [][NextQuery]_vars

(***************************************************************************)
(* package time: Format of an instant given in seconds since the Unix      *)
(* epoch, in UTC.  A formatted date is the sequence of the layout's names, *)
(* digits and separators.                                                  *)
(***************************************************************************)
SecondsPerHour == 3600
SecondsPerDay == 86400

WeekdayNames == <<"Sun", "Mon", "Tue", "Wed", "Thu", "Fri", "Sat">>
MonthNames == <<"Jan", "Feb", "Mar", "Apr", "May", "Jun",
                "Jul", "Aug", "Sep", "Oct", "Nov", "Dec">>

\* two-digit, zero-padded field of a layout (02, 15, 04, 05)
Pad2(n) == IF n < 10 THEN <<"0">> \o Itoa(n) ELSE Itoa(n)

\* the civil date [year, month, day] of day number z, counted from 1970-01-01
CivilFromDays(z) ==
    LET zz == z + 719468
        era == zz \div 146097
        doe == zz - era * 146097
        yoe == (doe - doe \div 1460 + doe \div 36524 - doe \div 146096) \div 365
        doy == doe - (365 * yoe + yoe \div 4 - yoe \div 100)
        mp == (5 * doy + 2) \div 153
        d == doy - (153 * mp + 2) \div 5 + 1
        m == IF mp < 10 THEN mp + 3 ELSE mp - 9
        y == yoe + era * 400 + (IF m <= 2 THEN 1 ELSE 0)
    IN  [year |-> y, month |-> m, day |-> d]

\* t.Format of the layout "Mon, 02 Jan 2006 15:04:05 <zone>"
FormatTime(t, zone) ==
    LET z == t \div SecondsPerDay
        s == t % SecondsPerDay
        c == CivilFromDays(z)
    IN  <<WeekdayNames[((z + 4) % 7) + 1], ",", " ">> \o Pad2(c.day)
        \o <<" ", MonthNames[c.month], " ">> \o Itoa(c.year)
        \o <<" ">> \o Pad2(s \div SecondsPerHour)
        \o <<":">> \o Pad2((s % SecondsPerHour) \div 60)
        \o <<":">> \o Pad2(s % 60)
        \o <<" ", zone>>

\* t.Format(http.TimeFormat)
FormatHTTP(t) == FormatTime(t, "GMT")

\* t.Format(time.RFC1123), the zone being UTC
FormatRFC1123(t) == FormatTime(t, "UTC")

(***************************************************************************)
(* Package cache, the constructor taking a day count and a reference time. *)
(***************************************************************************)
\* time.Hour * 24 * 30 * day, in seconds
Duration(day) == SecondsPerHour * 24 * 30 * day

NewHTTPCache(day, t) ==
    [MaxAge |-> Duration(day), Expires |-> FormatHTTP(t)]

\* the header writes of the closure HTTPCache.Handler returns
CacheSetHeaders(c, h) ==
    LET h1 == MapSet(h, "Cache-Control", <<"public, max-age=">> \o Itoa(c.MaxAge))
    IN  MapSet(h1, "Expires", c.Expires)

(***************************************************************************)
(* Package nocache.                                                        *)
(***************************************************************************)
epoch == FormatRFC1123(0)

noCacheHeaders ==
    [x \in {"Expires", "Cache-Control", "Pragma", "X-Accel-Expires"} |->
        CASE x = "Expires" -> epoch
          [] x = "Cache-Control" ->
                <<"no-cache, no-store, no-transform, must-revalidate, private, max-age=0">>
          [] x = "Pragma" -> <<"no-cache">>
          [] x = "X-Accel-Expires" -> <<"0">>]

\* NoCacheSetHeaders that leaves a header alone when it is already set
RECURSIVE NoCacheSetHeadersKeep(_, _, _)
NoCacheSetHeadersKeep(h, order, i) ==
    IF i > Len(order) THEN h
    ELSE NoCacheSetHeadersKeep(
             IF order[i] \in DOMAIN h THEN h
             ELSE MapSet(h, order[i], noCacheHeaders[order[i]]),
             order, i + 1)

\* `for k, v := range noCacheHeaders { w.Header().Set(k, v) }` in iteration order
RECURSIVE NoCacheSetHeaders(_, _, _)
NoCacheSetHeaders(h, order, i) ==
    IF i > Len(order) THEN h
    ELSE NoCacheSetHeaders(MapSet(h, order[i], noCacheHeaders[order[i]]), order, i + 1)

(***************************************************************************)
(* The header middlewares at work on one response.                         *)
(***************************************************************************)
\* response headers an outer handler may have set before the middleware runs
ResponseHeaderNames ==
    {"Expires", "Cache-Control", "Pragma", "X-Accel-Expires", "Etag"}

StaleValue == <<"stale">>

PriorHeaders == UNION { [S -> {StaleValue}] : S \in SUBSET ResponseHeaderNames }

\* reference times: the epoch, the last second of a day, a leap day,
\* the end of a year and two ordinary instants
Times == {0, 86399, 951782400, 1230767999, 1700000000, 1762300800}

InitHeaderIdle ==
    /\ cache = Nil
    /\ hw \in PriorHeaders
    /\ prior = hw
    /\ hpc = "idle"
    /\ nextSeen = <<>>

\* the `day` arguments tried: 1..MaxDay, and 30
Days == (1..MaxDay) \cup {30}

InitCache ==
    /\ values = EmptyMap
    /\ reqHeader \in RequestHeaders
    /\ InitQueryIdle
    /\ cacheIn \in [day : Days, t : Times]
    /\ InitHeaderIdle

\* c := NewHTTPCache(day, t)
Construct ==
    /\ cache = Nil
    /\ cache' = NewHTTPCache(cacheIn.day, cacheIn.t)
    /\ UNCHANGED <<values, reqHeader, cacheIn, hw, prior, hpc, nextSeen>>
    /\ UNCHANGED queryVars

\* the closure returned by c.Handler(next) serves the request:
\* both headers are set, then next.ServeHTTP(w, r)
Handler ==
    /\ cache # Nil
    /\ hpc = "idle"
    /\ hw' = CacheSetHeaders(cache, hw)
    /\ nextSeen' = Append(nextSeen, hw')
    /\ hpc' = "done"
    /\ UNCHANGED <<values, reqHeader, cacheIn, cache, prior>>
    /\ UNCHANGED queryVars

NextCache == Construct \/ Handler

SpecCache == InitCache /\ [][NextCache]_vars

InitNoCache ==
    /\ InitRequest
    /\ Cardinality(DOMAIN values) <= 1
    /\ InitQueryIdle
    /\ cacheIn = Nil
    /\ InitHeaderIdle

\* the closure returned by nocache.Middleware(next) serves the request:
\* the headers are set, then next.ServeHTTP(w, r)
Middleware ==
    /\ hpc = "idle"
    /\ \E order \in Orders(DOMAIN noCacheHeaders) :
         hw' = NoCacheSetHeaders(hw, order, 1)
    /\ nextSeen' = Append(nextSeen, hw')
    /\ hpc' = "done"
    /\ UNCHANGED <<values, reqHeader, cacheIn, cache, prior>>
    /\ UNCHANGED queryVars

NextNoCache == Middleware

SpecNoCache == InitNoCache /\ [][NextNoCache]_vars

(***************************************************************************)
(* Properties.                                                             *)
(***************************************************************************)
Done(r) == pc[r] = "done"

FilterKeys == {k \in DOMAIN values : HasPrefix(k, PrefixFilter)}
FieldsKeys == {k \in DOMAIN values : HasPrefix(k, PrefixFields)}
MalformedKeys == {k \in FilterKeys \cup FieldsKeys : ~FindStringSubmatch(k).matched}

\* the request headers pass validateHeader's two comparisons
HeadersPass ==
    /\ reqHeader[acceptH] = filterMediaType
    /\ reqHeader[contentType] = reqHeader[acceptH]

\* the response of request r is one error document with this status and
\* this title; the title is in the body when the body could be encoded
ErrorResponse(r, status, title) ==
    /\ w[r].wroteHeader
    /\ w[r].status = status
    /\ Len(w[r].body) = 1
    /\ ~encFailed[r] =>
         LET e == w[r].body[1].Errors
         IN  /\ Len(e) = 1
             /\ e[1].Status = Itoa(status)
             /\ e[1].Title = title
             /\ e[1].Meta.creator = "query middleware"

\* the downstream handler was called once, with the Params attached
Attached(r) ==
    /\ Len(passed[r]) = 1
    /\ ContextKeyQueryParams \in DOMAIN passed[r][1]

Bundle(r) == passed[r][1][ContextKeyQueryParams]

KeyFilterName == <<"f","i","l","t","e","r","[","n","a","m","e","]">>
KeyFieldsArticles == <<"f","i","e","l","d","s","[","a","r","t","i","c","l","e","s","]">>
KeyFieldsX == <<"f","i","e","l","d","s","X">>
KeySort == <<"s","o","r","t">>
Name == <<"n","a","m","e">>
Articles == <<"a","r","t","i","c","l","e","s">>

\* C1: for the query filter[name]=foo with Accept and Content-Type both the
\* media type string without surrounding quotes and backslashes, no error
\* response is written and the downstream handler is called once with a
\* Params in which Filters["name"] = "foo" and HasFilters is true.
C1_PlainMediaTypeForwardsFilter ==
    \A r \in Reqs :
        ( /\ Done(r)
          /\ DOMAIN values = {KeyFilterName}
          /\ values[KeyFilterName][1] = Foo
          /\ reqHeader[acceptH] = PlainMediaType
          /\ reqHeader[contentType] = PlainMediaType )
        => /\ ~w[r].wroteHeader
           /\ Attached(r)
           /\ Bundle(r).HasFilters
           /\ Name \in DOMAIN Bundle(r).Filters
           /\ Bundle(r).Filters[Name] = Foo

\* C2: a request with a key starting with `filter` (matching the bracket
\* pattern or not) and no malformed `fields` key is answered 406 "Accept
\* header is not acceptable" when Accept is not the media type validateHeader
\* expects, and 415 "Media type is not supported" when Accept is that media
\* type and Content-Type differs from it; the downstream handler is not
\* called, whatever the order of the keys.
C2_FilterKeyHeaderErrors ==
    \A r \in Reqs :
        ( /\ Done(r)
          /\ FilterKeys # {}
          /\ MalformedKeys \cap FieldsKeys = {} )
        => /\ reqHeader[acceptH] # filterMediaType
              => /\ ErrorResponse(r, 406, "Accept header is not acceptable")
                 /\ passed[r] = <<>>
           /\ ( /\ reqHeader[acceptH] = filterMediaType
                /\ reqHeader[contentType] # reqHeader[acceptH] )
              => /\ ErrorResponse(r, 415, "Media type is not supported")
                 /\ passed[r] = <<>>

\* a malformed filter key met after another key, under a right Accept and a
\* wrong Content-Type, answered 415
C2_Witness ==
    \E r \in Reqs :
        /\ Done(r)
        /\ MalformedKeys \cap FilterKeys # {}
        /\ Len(visited[r]) = 2
        /\ reqHeader[acceptH] = filterMediaType
        /\ reqHeader[contentType] = PlainMediaType
        /\ w[r].status = 415
        /\ passed[r] = <<>>

\* C3: every served request ends in exactly one of two ways: one error
\* response with status 400, 406 or 415 and no downstream call, or no
\* response written and exactly one downstream call.
C3_ErrorOrDownstream ==
    \A r \in Reqs :
        Done(r) =>
            \/ /\ w[r].wroteHeader
               /\ w[r].status \in {400, 406, 415}
               /\ Len(w[r].body) = 1
               /\ passed[r] = <<>>
            \/ /\ ~w[r].wroteHeader
               /\ w[r].body = <<>>
               /\ Len(passed[r]) = 1

\* a fields key was parsed, then a later key aborted the request
C3_Witness ==
    \E r \in Reqs :
        /\ Done(r)
        /\ Len(visited[r]) >= 2
        /\ params[r].HasFields
        /\ w[r].wroteHeader
        /\ passed[r] = <<>>

\* C4: when the downstream handler is called, the Params is attached under
\* ContextKeyQueryParams exactly when one of HasFilters, HasFields,
\* HasIncludes is true; a query with no `include` key and no key starting
\* with `fields` or `filter` reaches the handler with nothing attached.
C4_AttachedIffFlag ==
    \A r \in Reqs :
        /\ (Done(r) /\ Len(passed[r]) = 1)
           => /\ (ContextKeyQueryParams \in DOMAIN passed[r][1])
                 <=> (params[r].HasFilters \/ params[r].HasFields \/ params[r].HasIncludes)
              /\ Attached(r) => Bundle(r) = params[r]
        /\ (Done(r) /\ FilterKeys = {} /\ FieldsKeys = {} /\ KeyInclude \notin DOMAIN values)
           => passed[r] = <<EmptyMap>>

\* a query holding only the keys `sort` and `includes` went downstream
\* without a bundle
C4_Witness ==
    \E r \in Reqs :
        /\ Done(r)
        /\ DOMAIN values = {KeySort, <<"i","n","c","l","u","d","e","s">>}
        /\ passed[r] = <<EmptyMap>>

\* C5: without a key starting with `filter` no 406 or 415 is answered,
\* and the query fields[articles]=title,body goes downstream with
\* Fields["articles"] = [title, body] and HasFields, whatever the headers.
C5_FieldsNeedNoHeaders ==
    \A r \in Reqs :
        (Done(r) /\ FilterKeys = {})
        => /\ w[r].status \notin {406, 415}
           /\ ( /\ DOMAIN values = {KeyFieldsArticles}
                /\ values[KeyFieldsArticles][1] = TitleBody )
              => /\ ~w[r].wroteHeader
                 /\ Attached(r)
                 /\ Bundle(r).HasFields
                 /\ Bundle(r).Fields = MapSet(EmptyMap, Articles, <<Title, Body>>)

\* fields[articles]=title,body went downstream with no Accept header at all
C5_Witness ==
    \E r \in Reqs :
        /\ Done(r)
        /\ DOMAIN values = {KeyFieldsArticles}
        /\ values[KeyFieldsArticles][1] = TitleBody
        /\ reqHeader[acceptH] = EmptyString
        /\ reqHeader[contentType] = EmptyString
        /\ Attached(r)

\* C6: a request with a `fields` or `filter` key that does not match the
\* bracket pattern, whose headers pass validation or which has no `filter`
\* key, is answered 400 "Invalid query parameter" and is not passed
\* downstream, whatever the order of the keys and the other keys.
C6_MalformedKeyIs400 ==
    \A r \in Reqs :
        ( /\ Done(r)
          /\ MalformedKeys # {}
          /\ (FilterKeys = {} \/ HeadersPass) )
        => /\ ErrorResponse(r, 400, "Invalid query parameter")
           /\ passed[r] = <<>>

\* fields[articles] was parsed first, then fieldsX was answered 400
C6_Witness ==
    \E r \in Reqs :
        /\ Done(r)
        /\ DOMAIN values = {KeyFieldsArticles, KeyFieldsX}
        /\ visited[r] = <<KeyFieldsArticles, KeyFieldsX>>
        /\ w[r].status = 400
        /\ passed[r] = <<>>

\* C7: two requests with the same query string and headers hand equal
\* Params to the downstream handler, whatever the two key orders.
C7_SameQuerySameBundle ==
    \A r1, r2 \in Reqs :
        ( /\ Done(r1) /\ Done(r2)
          /\ Len(passed[r1]) = 1 /\ Len(passed[r2]) = 1 )
        => passed[r1] = passed[r2]

ThirtyDays == 30 * SecondsPerDay

\* C8: with a 30-day duration and reference time T, the handler sets
\* Cache-Control to "public, max-age=2592000" and Expires to the HTTP date
\* of T plus 30 days, then calls the wrapped handler.
C8_ThirtyDayHeaders ==
    ( /\ hpc = "done"
      /\ (Duration(cacheIn.day) = ThirtyDays \/ cacheIn.day = 30) )
    => /\ Len(nextSeen) = 1
       /\ nextSeen[1]["Cache-Control"]
            = <<"public, max-age=", "2", "5", "9", "2", "0", "0", "0">>
       /\ nextSeen[1]["Expires"] = FormatHTTP(cacheIn.t + ThirtyDays)

C10_EncodeFailureIs500 ==
    \A r \in Reqs :
        (Done(r) /\ encFailed[r])
        => /\ w[r].status = 500
           /\ "Content-Type" \in DOMAIN w[r].sent
           /\ w[r].sent["Content-Type"] = TextPlain
====
